---------------------------- MODULE Spec2Model ----------------------------
(***************************************************************************)
(* Expirable cache engine of go-pkgz/expirable-cache.                      *)
(*                                                                         *)
(* The state is the loadingCacheImpl struct: the configuration (ttl,       *)
(* maxKeys, isLRU, onEvicted), the statistics, the index `items` and the   *)
(* recency list `evictList`.  The clock is the variable `now`, one unit is *)
(* one hour; Tick is the passage of time between two operations.  Every    *)
(* public operation runs under the mutex and is one action.                *)
(***************************************************************************)
EXTENDS Integers, Sequences, FiniteSets, TLC

\* ------------------------------------------------------------------------
\* Bounds of the model
\* ------------------------------------------------------------------------
MaxTime == 2

MaxAdded == 3

MaxReads == 1

\* the size a cache without a size cap is let grow to
MaxLen == 2

\* the calls each thread makes
MaxCalls == 1

Keys == {"a", "b", "c"}

Threads == {"t1", "t2", "t3"}

\* the value each thread writes
ValueOf == [t \in Threads |-> IF t = "t2" THEN "v2" ELSE "v1"]

\* the mutex is held by nobody
Free == "free"

Values == {"v1", "v2"}

\* the TTLs a cache is configured with besides the default, and the per-call
\* TTLs handed to Set (0 = use the cache-wide TTL)
ConfiguredTTLs == {2}

CallTTLs == {0, 1}

MaxKeysOptions == {0, 2}

\* the predicates handed to InvalidateFn, each as the set of keys it holds of
Predicates == {{"a"}, {"b", "c"}}

\* Go's nil interface value returned on a miss
Nil == "nil"

\* marker of `freshRun` once the run is no longer a plain run of inserts
Void == <<"void">>

\* ------------------------------------------------------------------------
\* Constants of the program
\* ------------------------------------------------------------------------
\* time.Hour * 24 * 365 * 10, in hours
noEvictionTTL == 87600

VARIABLES
  ttl,        \* c.ttl
  maxKeys,    \* c.maxKeys
  isLRU,      \* c.isLRU
  onEvicted,  \* TRUE iff c.onEvicted != nil
  stat,       \* c.stat
  items,      \* c.items: key -> key of the list element it points at
  evictList,  \* c.evictList: sequence of cacheItem, index 1 is Front
  now,        \* the clock read by time.Now()
  ret,        \* what the read of the last step returned, else NoResult
  calls,      \* arguments of the onEvicted calls made by the last step
  written,    \* per key in the cache: the value of the most recent Set
  freshRun,   \* keys in insertion order while the run is only inserts of
              \* new keys and nothing has expired, Void afterwards
  fired,      \* number of onEvicted calls made since construction
  gets,       \* number of Get calls that have returned
  mutex,      \* c.Mutex: Free, or the thread that holds it
  pc,         \* per thread: the statement it is at
  cur,        \* per thread: the call it is in and its local variables
  left,       \* per thread: the calls it may still make
  reenters,   \* TRUE iff the onEvicted callback calls a method of the cache
  issued,     \* the <<key, value>> of the Set calls made by the threads
  mixed       \* TRUE iff a thread has called something other than Set

vars == <<ttl, maxKeys, isLRU, onEvicted, stat, items, evictList, now, ret,
          calls, written, freshRun, fired, gets, mutex, pc, cur, left, reenters,
          issued, mixed>>

\* the variables of the threads
sched == <<mutex, pc, cur, left, reenters, issued, mixed>>

config == <<ttl, maxKeys, isLRU, onEvicted>>

\* ------------------------------------------------------------------------
\* container/list and map helpers
\* ------------------------------------------------------------------------
EmptyMap == [k \in {} |-> Nil]

RECURSIVE Reverse(_)
Reverse(s) == IF s = <<>> THEN <<>> ELSE Reverse(Tail(s)) \o <<Head(s)>>

\* position of the element carrying key k, 0 if there is none
RECURSIVE IndexOf(_, _)
IndexOf(l, k) ==
  IF l = <<>> THEN 0
  ELSE IF Head(l).key = k THEN 1
  ELSE LET i == IndexOf(Tail(l), k) IN IF i = 0 THEN 0 ELSE i + 1

\* list.Remove(e), e being the element that carries key k
Remove(l, k) == SelectSeq(l, LAMBDA e : e.key # k)

\* list.PushFront(v)
PushFront(l, e) == <<e>> \o l

\* list.MoveToFront(e), e being the element that carries key k
MoveToFront(l, k) ==
  IF IndexOf(l, k) = 0 THEN l ELSE <<l[IndexOf(l, k)]>> \o Remove(l, k)

\* list.Back(): the position of the oldest element, 0 for nil
Back(l) == Len(l)

\* delete(m, k)
MapDelete(m, k) == [x \in DOMAIN m \ {k} |-> m[x]]

\* m[k] = v
MapPut(m, k, v) == [x \in DOMAIN m \cup {k} |-> IF x = k THEN v ELSE m[x]]

\* ------------------------------------------------------------------------
\* The engine.  Every routine is a function of the state it runs on under
\* the mutex,
\*   c = [items, evictList, stat, calls, ret]
\* where calls lists the arguments of the onEvicted calls made so far by the
\* running operation and ret is what a read returns.
\* ------------------------------------------------------------------------
cacheItem(key, value, expiresAt) ==
  [key |-> key, value |-> value, expiresAt |-> expiresAt]

\* what Get and Peek hand back, (value, ok); get is the key a Get was called
\* with and Nil for a Peek
Result(get, value, ok) == [get |-> get, value |-> value, ok |-> ok]

\* the result slot of a step that is no read
NoResult == Result(Nil, Nil, FALSE)

\* time.Now().After(expiresAt)
\* After that holds at the instant of expiry too
After_inclusive(t, expiresAt) == t >= expiresAt

After(t, expiresAt) == t > expiresAt

\* the cacheItem behind c.items[key]
Item(c, key) == c.evictList[IndexOf(c.evictList, c.items[key])]

\* keys that walks the list from the front
keys_fromFront(l) == [i \in 1..Len(l) |-> l[i].key]

keys(l) == [i \in 1..Len(l) |-> Reverse(l)[i].key]

\* values that skips nothing
values_all(l, t) == [i \in 1..Len(l) |-> Reverse(l)[i].value]

\* values that walks the list from the front
values_fromFront(l, t) ==
  LET live == SelectSeq(l, LAMBDA e : ~After(t, e.expiresAt))
  IN [i \in 1..Len(live) |-> live[i].value]

\* Values() at instant t: the values of the entries that are not expired,
\* from the oldest to the newest
values(l, t) ==
  LET live == SelectSeq(Reverse(l), LAMBDA e : ~After(t, e.expiresAt))
  IN [i \in 1..Len(live) |-> live[i].value]

\* removeElement that does not call onEvicted
removeElement_silent(c, k) ==
  LET kv == c.evictList[IndexOf(c.evictList, k)] IN
  [c EXCEPT !.evictList = Remove(@, k),
            !.items = MapDelete(@, kv.key),
            !.stat.Evicted = @ + 1]

\* removeElement that leaves the slot of the index
removeElement_keepsIndex(c, k) ==
  LET kv == c.evictList[IndexOf(c.evictList, k)] IN
  [c EXCEPT !.evictList = Remove(@, k),
            !.stat.Evicted = @ + 1,
            !.calls = IF onEvicted THEN Append(@, <<kv.key, kv.value>>) ELSE @]

removeElement(c, k) ==
  LET kv == c.evictList[IndexOf(c.evictList, k)] IN
  [c EXCEPT !.evictList = Remove(@, k),
            !.items = MapDelete(@, kv.key),
            !.stat.Evicted = @ + 1,
            !.calls = IF onEvicted THEN Append(@, <<kv.key, kv.value>>) ELSE @]

\* removeOldest taking the element at the front
removeOldest_front(c) ==
  IF Back(c.evictList) # 0
  THEN removeElement(c, c.evictList[1].key)
  ELSE c

removeOldest(c) ==
  IF Back(c.evictList) # 0
  THEN removeElement(c, c.evictList[Back(c.evictList)].key)
  ELSE c

removeOldestIfExpired(c, t) ==
  IF Back(c.evictList) # 0
     /\ After(t, c.evictList[Back(c.evictList)].expiresAt)
  THEN removeElement(c, c.evictList[Back(c.evictList)].key)
  ELSE c

\* effectiveTTL that takes a zero per-call TTL as it is
effectiveTTL_literal(d) == d

\* the TTL an entry is written with: a zero per-call TTL means the
\* cache-wide one
effectiveTTL(d) == IF d = 0 THEN ttl ELSE d

\* updateExisting that moves the entry in LRU mode only
updateExisting_inPlace(c, key, value, expiresAt) ==
  LET moved == IF isLRU THEN MoveToFront(c.evictList, c.items[key]) ELSE c.evictList
      i     == IndexOf(moved, c.items[key])
  IN [c EXCEPT !.evictList =
        [moved EXCEPT ![i].value = value, ![i].expiresAt = expiresAt]]

\* updateExisting that refreshes the expiry but leaves the old value
updateExisting_staleValue(c, key, value, expiresAt) ==
  LET moved == MoveToFront(c.evictList, c.items[key])
      i     == IndexOf(moved, c.items[key])
  IN [c EXCEPT !.evictList = [moved EXCEPT ![i].expiresAt = expiresAt]]

\* the branch of Set for a key that is in the index
\* updateExisting that leaves the expiry as it was
updateExisting_keepsExpiry(c, key, value, expiresAt) ==
  LET moved == MoveToFront(c.evictList, c.items[key])
      i     == IndexOf(moved, c.items[key])
  IN [c EXCEPT !.evictList = [moved EXCEPT ![i].value = value]]

updateExisting(c, key, value, expiresAt) ==
  LET moved == MoveToFront(c.evictList, c.items[key])
      i     == IndexOf(moved, c.items[key])
  IN [c EXCEPT !.evictList =
        [moved EXCEPT ![i].value = value, ![i].expiresAt = expiresAt]]

\* addNew that puts the entry at the back of the list
addNew_atBack(c, key, value, expiresAt) ==
  [c EXCEPT !.evictList = Append(@, cacheItem(key, value, expiresAt)),
            !.items = MapPut(@, key, key),
            !.stat.Added = @ + 1]

\* the branch of Set for a key that is not in the index, up to Added++
addNew(c, key, value, expiresAt) ==
  [c EXCEPT !.evictList = PushFront(@, cacheItem(key, value, expiresAt)),
            !.items = MapPut(@, key, key),
            !.stat.Added = @ + 1]

\* trimExpired without the test for the default TTL
trimExpired_always(c, t) == removeOldestIfExpired(c, t)

\* "Remove oldest entry if it is expired, only in case of non-default TTL"
trimExpired(c, t) ==
  IF ttl # noEvictionTTL THEN removeOldestIfExpired(c, t) ELSE c

\* enforceSize with the comparison off by one
enforceSize_offByOne(c) ==
  IF maxKeys > 0 /\ Cardinality(DOMAIN c.items) > maxKeys + 1
  THEN removeOldest(c) ELSE c

\* enforceSize that takes maxKeys = 0 for a limit
enforceSize_zeroLimit(c) ==
  IF Cardinality(DOMAIN c.items) > maxKeys
  THEN removeOldest(c) ELSE c

\* "Verify size not exceeded"
enforceSize(c) ==
  IF maxKeys > 0 /\ Cardinality(DOMAIN c.items) > maxKeys
  THEN removeOldest(c) ELSE c

\* Set at instant t, d being the TTL the entry is written with
Set(c, key, value, d, t) ==
  IF key \in DOMAIN c.items
  THEN updateExisting(c, key, value, t + d)
  ELSE enforceSize(trimExpired(addNew(c, key, value, t + d), t))

\* Add that reports every removal
Add_anyRemoval(c, key, value, t) ==
  LET c2 == Set(c, key, value, effectiveTTL(0), t) IN
    [cache |-> c2, evicted |-> c2.stat.Evicted > c.stat.Evicted]

\* Add(key, value) at instant t: Set with the zero TTL; it returns whether
\* the size check removed an entry
Add(c, key, value, t) ==
  [cache |-> Set(c, key, value, effectiveTTL(0), t),
   evicted |-> /\ key \notin DOMAIN c.items
               /\ enforceSize(trimExpired(addNew(c, key, value, t + effectiveTTL(0)), t))
                    # trimExpired(addNew(c, key, value, t + effectiveTTL(0)), t)]

\* ContainsOrAdd that writes the key it finds
ContainsOrAdd_writing(c, key, value, t) ==
  [cache |-> Add(c, key, value, t).cache,
   contains |-> key \in DOMAIN c.items,
   evicted |-> Add(c, key, value, t).evicted]

\* ContainsOrAdd(key, value) at instant t, under one hold of the mutex:
\* (true, false) for a key in the index, else Add and (false, evicted)
ContainsOrAdd(c, key, value, t) ==
  IF key \in DOMAIN c.items
  THEN [cache |-> c, contains |-> TRUE, evicted |-> FALSE]
  ELSE [cache |-> Add(c, key, value, t).cache, contains |-> FALSE,
        evicted |-> Add(c, key, value, t).evicted]

\* touch that moves in LRC mode too
touch_always(l, k) == MoveToFront(l, k)

\* touch that never moves
touch_never(l, k) == l

\* the move of Get on a hit
touch(l, k) == IF isLRU THEN MoveToFront(l, k) ELSE l

\* Get that drops the entry it finds expired
Get_dropsExpired(c, key, t) ==
  IF key \in DOMAIN c.items
  THEN IF After(t, Item(c, key).expiresAt)
       THEN [removeElement(c, c.items[key])
               EXCEPT !.stat.Misses = @ + 1,
                      !.ret = Result(key, Nil, FALSE)]
       ELSE [c EXCEPT !.evictList = IF isLRU THEN MoveToFront(@, c.items[key]) ELSE @,
                      !.stat.Hits = @ + 1,
                      !.ret = Result(key, Item(c, key).value, TRUE)]
  ELSE [c EXCEPT !.stat.Misses = @ + 1,
                 !.ret = Result(key, Nil, FALSE)]

Get(c, key, t) ==
  IF key \in DOMAIN c.items
  THEN IF After(t, Item(c, key).expiresAt)
       THEN [c EXCEPT !.stat.Misses = @ + 1,
                      !.ret = Result(key, Nil, FALSE)]
       ELSE [c EXCEPT !.evictList = touch(@, c.items[key]),
                      !.stat.Hits = @ + 1,
                      !.ret = Result(key, Item(c, key).value, TRUE)]
  ELSE [c EXCEPT !.stat.Misses = @ + 1,
                 !.ret = Result(key, Nil, FALSE)]

\* v3Get that returns no value for an expired entry
v3Get_dropsValue(c, key, t) == Get(c, key, t)

\* Get of the wrapped engine: as Get, but an entry that is present and
\* expired is returned with its stored value and ok = false
v3Get(c, key, t) ==
  IF key \in DOMAIN c.items /\ After(t, Item(c, key).expiresAt)
  THEN [c EXCEPT !.stat.Misses = @ + 1,
                 !.ret = Result(key, Item(c, key).value, FALSE)]
  ELSE Get(c, key, t)

\* cacheImpl.Get that hands on what the engine returned
adapterGet_passThrough(c, key, t) == v3Get(c, key, t)

\* cacheImpl.Get: the zero value in place of the engine's when ok is false
adapterGet(c, key, t) ==
  LET r == v3Get(c, key, t) IN
    IF ~r.ret.ok THEN [r EXCEPT !.ret.value = Nil] ELSE r

\* Peek that moves the entry it returns to the front
Peek_touching(c, key, t) ==
  IF key \in DOMAIN c.items
  THEN IF After(t, Item(c, key).expiresAt)
       THEN [c EXCEPT !.ret = Result(Nil, Nil, FALSE)]
       ELSE [c EXCEPT !.evictList = MoveToFront(@, c.items[key]),
                      !.ret = Result(Nil, Item(c, key).value, TRUE)]
  ELSE [c EXCEPT !.ret = Result(Nil, Nil, FALSE)]

\* Peek that counts the outcome as Get does
Peek_counting(c, key, t) ==
  IF key \in DOMAIN c.items
  THEN IF After(t, Item(c, key).expiresAt)
       THEN [c EXCEPT !.stat.Misses = @ + 1, !.ret = Result(Nil, Nil, FALSE)]
       ELSE [c EXCEPT !.stat.Hits = @ + 1,
                      !.ret = Result(Nil, Item(c, key).value, TRUE)]
  ELSE [c EXCEPT !.stat.Misses = @ + 1, !.ret = Result(Nil, Nil, FALSE)]

Peek(c, key, t) ==
  IF key \in DOMAIN c.items
  THEN IF After(t, Item(c, key).expiresAt)
       THEN [c EXCEPT !.ret = Result(Nil, Nil, FALSE)]
       ELSE [c EXCEPT !.ret = Result(Nil, Item(c, key).value, TRUE)]
  ELSE [c EXCEPT !.ret = Result(Nil, Nil, FALSE)]

\* Peek of the wrapped engine: as Peek, but an entry that is present and
\* expired is returned with its stored value and ok = false
v3Peek(c, key, t) ==
  IF key \in DOMAIN c.items /\ After(t, Item(c, key).expiresAt)
  THEN [c EXCEPT !.ret = Result(Nil, Item(c, key).value, FALSE)]
  ELSE Peek(c, key, t)

\* cacheImpl.Peek: the zero value in place of the engine's when ok is false
adapterPeek(c, key, t) ==
  LET r == v3Peek(c, key, t) IN
    IF ~r.ret.ok THEN [r EXCEPT !.ret.value = Nil] ELSE r

\* Invalidate that counts a key it does not find as evicted
Invalidate_counting(c, key) ==
  IF key \in DOMAIN c.items THEN removeElement(c, c.items[key])
  ELSE [c EXCEPT !.stat.Evicted = @ + 1]

Invalidate(c, key) ==
  IF key \in DOMAIN c.items THEN removeElement(c, c.items[key]) ELSE c

\* invalidateLoop that stops at the first key the predicate holds of
RECURSIVE invalidateLoop_first(_, _, _)
invalidateLoop_first(c, order, fn) ==
  IF order = <<>> THEN c
  ELSE IF Head(order) \in fn
       THEN removeElement(c, c.items[Head(order)])
       ELSE invalidateLoop_first(c, Tail(order), fn)

\* the loop of InvalidateFn, the range over the map visiting the keys in the
\* order `order`; fn is the set of keys the predicate holds of
RECURSIVE invalidateLoop(_, _, _)
invalidateLoop(c, order, fn) ==
  IF order = <<>> THEN c
  ELSE IF Head(order) \in fn
       THEN invalidateLoop(removeElement(c, c.items[Head(order)]), Tail(order), fn)
       ELSE invalidateLoop(c, Tail(order), fn)

InvalidateFn(c, order, fn) == invalidateLoop(c, order, fn)

\* GetExpiration: the expiry of the entry of key with true, the zero time
\* with false for a key that is not in the cache
GetExpiration(c, key) ==
  IF key \in DOMAIN c.items THEN <<Item(c, key).expiresAt, TRUE>>
  ELSE <<0, FALSE>>

\* RemoveOldest that removes the two oldest entries
RemoveOldest_twice(c) == removeOldest(removeOldest(c))

RemoveOldest(c) == removeOldest(c)

\* what RemoveOldest reports to its caller, (key, value, present): the entry
\* at the back, if there is one
RemoveOldestReport(c) ==
  IF Back(c.evictList) # 0
  THEN <<c.evictList[Back(c.evictList)].key,
         c.evictList[Back(c.evictList)].value, TRUE>>
  ELSE <<Nil, Nil, FALSE>>

\* deleteExpiredLoop that removes every key of the snapshot
RECURSIVE deleteExpiredLoop_all(_, _, _)
deleteExpiredLoop_all(c, ks, t) ==
  IF ks = <<>> THEN c
  ELSE deleteExpiredLoop_all(removeElement(c, c.items[Head(ks)]), Tail(ks), t)

\* resizeLoop that removes one entry at most
RECURSIVE resizeLoop_once(_, _)
resizeLoop_once(c, n) ==
  IF n > 0 /\ Len(c.evictList) > n THEN removeOldest(c) ELSE c

\* the loop of Resize: back entries are removed while the size exceeds n
RECURSIVE resizeLoop(_, _)
resizeLoop(c, n) ==
  IF n > 0 /\ Len(c.evictList) > n THEN resizeLoop(removeOldest(c), n) ELSE c

\* Resize(n): the cache it leaves, the MaxKeys it sets and the number of
\* entries it removed, which it returns
Resize(c, n) ==
  [cache |-> resizeLoop(c, n), maxKeys |-> n,
   removed |-> Len(c.evictList) - Len(resizeLoop(c, n).evictList)]

\* the loop of DeleteExpired over the snapshot ks of keys()
RECURSIVE deleteExpiredLoop(_, _, _)
deleteExpiredLoop(c, ks, t) ==
  IF ks = <<>> THEN c
  ELSE IF After(t, Item(c, Head(ks)).expiresAt)
       THEN deleteExpiredLoop(removeElement(c, c.items[Head(ks)]), Tail(ks), t)
       ELSE IF ~isLRU THEN c
            ELSE deleteExpiredLoop(c, Tail(ks), t)

DeleteExpired(c, t) == deleteExpiredLoop(c, keys(c.evictList), t)

\* purgeLoop without the count of the dropped entries
RECURSIVE purgeLoop_noCount(_, _)
purgeLoop_noCount(c, order) ==
  IF order = <<>> THEN c
  ELSE purgeLoop_noCount(
         [c EXCEPT !.items = MapDelete(@, Head(order)),
                   !.calls = IF onEvicted
                             THEN Append(@, <<Head(order), Item(c, Head(order)).value>>)
                             ELSE @],
         Tail(order))

\* the loop of Purge, the range over the map visiting the keys in the order
\* `order`
RECURSIVE purgeLoop(_, _)
purgeLoop(c, order) ==
  IF order = <<>> THEN c
  ELSE purgeLoop(
         [c EXCEPT !.items = MapDelete(@, Head(order)),
                   !.stat.Evicted = @ + 1,
                   !.calls = IF onEvicted
                             THEN Append(@, <<Head(order), Item(c, Head(order)).value>>)
                             ELSE @],
         Tail(order))

\* Purge that leaves the recency list as it is
Purge_keepsList(c, order) == purgeLoop(c, order)

Purge(c, order) == [purgeLoop(c, order) EXCEPT !.evictList = <<>>]

\* the orders in which a range over a map with key set S may visit it
Orders(S) ==
  {o \in [1..Cardinality(S) -> S] : \A i, j \in DOMAIN o : i # j => o[i] # o[j]}

\* ------------------------------------------------------------------------
\* The state machine: one action per call of a public operation
\* ------------------------------------------------------------------------
\* the state an operation finds when it has taken the mutex
locked == [items |-> items, evictList |-> evictList, stat |-> stat,
           calls |-> <<>>, ret |-> NoResult]

\* the ghost variable `written` after a step that set key k to v (k = Nil
\* for a step that sets nothing) and left the index newItems
Written(newItems, k, v) ==
  [x \in Keys |-> IF x \notin DOMAIN newItems THEN Nil
                  ELSE IF x = k THEN v ELSE written[x]]

\* stores the state c the operation ends with
Commit(c) ==
  /\ items' = c.items
  /\ evictList' = c.evictList
  /\ stat' = c.stat
  /\ calls' = c.calls
  /\ ret' = c.ret
  /\ fired' = fired + Len(c.calls)

NewLoadingCache ==
  /\ ttl \in {noEvictionTTL} \cup ConfiguredTTLs
  /\ maxKeys \in MaxKeysOptions
  /\ isLRU \in BOOLEAN
  /\ onEvicted = TRUE
  /\ stat = [Hits |-> 0, Misses |-> 0, Added |-> 0, Evicted |-> 0]
  /\ items = EmptyMap
  /\ evictList = <<>>

\* the local variables of a thread that is in no call
NoCall == [name |-> "none", key |-> Nil, value |-> Nil, d |-> 0, at |-> 0,
           found |-> FALSE, resume |-> "idle", stats |-> Nil, size |-> 0,
           fn |-> {}]

\* no thread is running
NoThreads ==
  /\ mutex = Free
  /\ pc = [t \in Threads |-> "idle"]
  /\ cur = [t \in Threads |-> NoCall]
  /\ left = [t \in Threads |-> 0]
  /\ reenters = FALSE
  /\ issued = {}
  /\ mixed = FALSE

\* the ghost variables at construction
NoHistory ==
  /\ ret = NoResult
  /\ calls = <<>>
  /\ written = [x \in Keys |-> Nil]
  /\ freshRun = <<>>
  /\ fired = 0
  /\ gets = 0

Init ==
  /\ NewLoadingCache
  /\ now = 0
  /\ NoHistory
  /\ NoThreads

\* Tick with a sweeper that removes what has expired
Tick_sweeping ==
  /\ now < MaxTime
  /\ now' = now + 1
  /\ LET c == DeleteExpired(locked, now + 1) IN
       /\ Commit(c)
       /\ written' = Written(c.items, Nil, Nil)
  /\ freshRun' = IF \E i \in DOMAIN evictList : After(now + 1, evictList[i].expiresAt)
                 THEN Void ELSE freshRun
  /\ UNCHANGED <<config, sched, gets>>

Tick ==
  /\ now < MaxTime
  /\ now' = now + 1
  /\ freshRun' = IF \E i \in DOMAIN evictList : After(now + 1, evictList[i].expiresAt)
                 THEN Void ELSE freshRun
  /\ ret' = NoResult
  /\ calls' = <<>>
  /\ UNCHANGED <<config, sched, stat, items, evictList, written, fired, gets>>

CallSet(key, value, d) ==
  /\ \/ key \in DOMAIN items
     \/ stat.Added < MaxAdded /\ (maxKeys > 0 \/ Len(evictList) < MaxLen)
  /\ LET c == Set(locked, key, value, effectiveTTL(d), now) IN
       /\ Commit(c)
       /\ written' = Written(c.items, key, value)
  /\ freshRun' = IF freshRun # Void /\ key \notin DOMAIN items
                    /\ \A i \in DOMAIN freshRun : freshRun[i] # key
                 THEN Append(freshRun, key) ELSE Void
  /\ UNCHANGED <<config, sched, now, gets>>

CallGet(key) ==
  /\ stat.Hits + stat.Misses < MaxReads
  /\ Commit(Get(locked, key, now))
  /\ gets' = gets + 1
  /\ freshRun' = Void
  /\ UNCHANGED <<config, sched, now, written>>

\* Get called through the v2 adapter
CallAdapterGet(key) ==
  /\ stat.Hits + stat.Misses < MaxReads
  /\ Commit(adapterGet(locked, key, now))
  /\ gets' = gets + 1
  /\ freshRun' = Void
  /\ UNCHANGED <<config, sched, now, written>>

\* Peek called through the v2 adapter
CallAdapterPeek(key) ==
  /\ Commit(adapterPeek(locked, key, now))
  /\ freshRun' = Void
  /\ UNCHANGED <<config, sched, now, written, gets>>

CallPeek(key) ==
  /\ Commit(Peek(locked, key, now))
  /\ freshRun' = Void
  /\ UNCHANGED <<config, sched, now, written, gets>>

CallInvalidate(key) ==
  /\ LET c == Invalidate(locked, key) IN
       /\ Commit(c)
       /\ written' = Written(c.items, Nil, Nil)
  /\ freshRun' = Void
  /\ UNCHANGED <<config, sched, now, gets>>

CallInvalidateFn(fn) ==
  /\ \E order \in Orders(DOMAIN items) :
       LET c == InvalidateFn(locked, order, fn) IN
         /\ Commit(c)
         /\ written' = Written(c.items, Nil, Nil)
  /\ freshRun' = Void
  /\ UNCHANGED <<config, sched, now, gets>>

CallRemoveOldest ==
  /\ LET c == RemoveOldest(locked) IN
       /\ Commit(c)
       /\ written' = Written(c.items, Nil, Nil)
  /\ freshRun' = Void
  /\ UNCHANGED <<config, sched, now, gets>>

CallDeleteExpired ==
  /\ LET c == DeleteExpired(locked, now) IN
       /\ Commit(c)
       /\ written' = Written(c.items, Nil, Nil)
  /\ freshRun' = Void
  /\ UNCHANGED <<config, sched, now, gets>>

CallPurge ==
  /\ \E order \in Orders(DOMAIN items) :
       LET c == Purge(locked, order) IN
         /\ Commit(c)
         /\ written' = Written(c.items, Nil, Nil)
  /\ freshRun' = Void
  /\ UNCHANGED <<config, sched, now, gets>>

Next ==
  \/ Tick
  \/ \E key \in Keys, value \in Values, d \in CallTTLs : CallSet(key, value, d)
  \/ \E key \in Keys : CallGet(key)
  \/ \E key \in Keys : CallPeek(key)
  \/ \E key \in Keys : CallAdapterGet(key)
  \/ \E key \in Keys : CallAdapterPeek(key)
  \/ \E key \in Keys : CallInvalidate(key)
  \/ \E fn \in Predicates : CallInvalidateFn(fn)
  \/ CallRemoveOldest
  \/ CallDeleteExpired
  \/ CallPurge

Spec == Init /\ [][Next]_vars

\* ------------------------------------------------------------------------
\* The cache written with one TTL only, as by the Set of loadingCacheImpl,
\* which takes no TTL: every entry expires ttl after it was written.
\* ------------------------------------------------------------------------
UniformTTLs == {1}

InitUniform ==
  /\ ttl \in {noEvictionTTL} \cup UniformTTLs
  /\ maxKeys \in MaxKeysOptions
  /\ isLRU \in BOOLEAN
  /\ onEvicted = TRUE
  /\ stat = [Hits |-> 0, Misses |-> 0, Added |-> 0, Evicted |-> 0]
  /\ items = EmptyMap
  /\ evictList = <<>>
  /\ now = 0
  /\ NoHistory
  /\ NoThreads

NextUniform ==
  \/ Tick
  \/ \E key \in Keys, value \in Values : CallSet(key, value, 0)
  \/ \E key \in Keys : CallGet(key)
  \/ \E key \in Keys : CallPeek(key)
  \/ \E key \in Keys : CallAdapterGet(key)
  \/ \E key \in Keys : CallAdapterPeek(key)
  \/ \E key \in Keys : CallInvalidate(key)
  \/ \E fn \in Predicates : CallInvalidateFn(fn)
  \/ CallRemoveOldest
  \/ CallDeleteExpired
  \/ CallPurge

SpecUniform == InitUniform /\ [][NextUniform]_vars

\* ------------------------------------------------------------------------
\* Threads.  Every public method starts with c.Lock() and ends, by defer,
\* with c.Unlock(); a thread is at one of
\*   "idle"      outside the cache
\*   "Lock"      at c.Lock() of the method it called
\*   "lookup"    Set: time.Now() and the lookup of the key
\*   "store"     Set: the update of the entry found, or the insert
\*   "trim"      Set: the removal of the oldest entry if expired
\*   "size"      Set: the size check
\*   "body"      any other method: its whole body
\*   "onEvicted" in the callback called by removeElement
\*   "cbLock"    at c.Lock() of the method the callback called
\*   "cbUnlock"  at the c.Unlock() of that method
\*   "Unlock"    at the deferred c.Unlock()
\* The calls of the threads overlap: the clock stands still meanwhile.
\* ------------------------------------------------------------------------
Call(name, key, value, d) ==
  [NoCall EXCEPT !.name = name, !.key = key, !.value = value, !.d = d]

\* the calls a thread makes
ThreadCalls(t) ==
  {Call("Set", k, ValueOf[t], d) : k \in Keys, d \in CallTTLs}
    \cup {Call("Invalidate", k, Nil, 0) : k \in Keys}
    \cup {Call("RemoveOldest", Nil, Nil, 0)}

\* the statements at which a thread reads or writes items, evictList or stat
Accessing == {"lookup", "store", "trim", "size", "body", "stat", "len"}

\* the statements between c.Lock() and c.Unlock()
Inside == Accessing \cup {"onEvicted", "cbLock", "cbUnlock", "Unlock",
                        "statUnlock", "lenUnlock"}

\* CanLock of a lock that its holder can take again
CanLock_reentrant(t) == mutex = Free \/ mutex = t

\* sync.Mutex.Lock can return
CanLock(t) == mutex = Free

\* where a step that ran removeElement goes on: into the callback if it was
\* called, to `next` after it
Proceed(t, c, next) ==
  /\ pc' = [pc EXCEPT ![t] = IF c.calls # <<>> THEN "onEvicted" ELSE next]
  /\ cur' = [cur EXCEPT ![t].resume = next]

tCall(t, call) ==
  /\ pc[t] = "idle"
  /\ left[t] > 0
  /\ left' = [left EXCEPT ![t] = @ - 1]
  /\ cur' = [cur EXCEPT ![t] = call]
  /\ pc' = [pc EXCEPT ![t] = "Lock"]
  /\ issued' = IF call.name = "Set" THEN issued \cup {<<call.key, call.value>>}
               ELSE issued
  /\ mixed' = (mixed \/ call.name # "Set")
  /\ UNCHANGED <<config, stat, items, evictList, now, ret, calls, written,
                 freshRun, fired, gets, mutex, reenters>>

tLock(t) ==
  /\ pc[t] \in {"Lock", "cbLock"}
  /\ CanLock(t)
  /\ mutex' = t
  /\ pc' = [pc EXCEPT ![t] = IF pc[t] = "cbLock" THEN "cbUnlock"
                             ELSE IF cur[t].name = "Set" THEN "lookup"
                             ELSE "body"]
  /\ UNCHANGED <<config, stat, items, evictList, now, ret, calls, written,
                 freshRun, fired, gets, cur, left, reenters, issued, mixed>>

tLookup(t) ==
  /\ pc[t] = "lookup"
  /\ cur' = [cur EXCEPT ![t].at = now, ![t].found = (cur[t].key \in DOMAIN items)]
  /\ pc' = [pc EXCEPT ![t] = "store"]
  /\ UNCHANGED <<config, stat, items, evictList, now, ret, calls, written,
                 freshRun, fired, gets, mutex, left, reenters, issued, mixed>>

\* tStore that inserts without regard to the lookup
tStore_blind(t) ==
  /\ pc[t] = "store"
  /\ LET o == cur[t]
         c == addNew(locked, o.key, o.value, o.at + effectiveTTL(o.d))
     IN /\ Commit(c)
        /\ written' = Written(c.items, o.key, o.value)
        /\ pc' = [pc EXCEPT ![t] = "trim"]
  /\ UNCHANGED <<config, now, freshRun, gets, mutex, cur, left, reenters, issued, mixed>>

tStore(t) ==
  /\ pc[t] = "store"
  /\ LET o == cur[t]
         c == IF o.found
              THEN updateExisting(locked, o.key, o.value, o.at + effectiveTTL(o.d))
              ELSE addNew(locked, o.key, o.value, o.at + effectiveTTL(o.d))
     IN /\ Commit(c)
        /\ written' = Written(c.items, o.key, o.value)
        /\ pc' = [pc EXCEPT ![t] = IF o.found THEN "Unlock" ELSE "trim"]
  /\ UNCHANGED <<config, now, freshRun, gets, mutex, cur, left, reenters, issued, mixed>>

tTrim(t) ==
  /\ pc[t] = "trim"
  /\ LET c == trimExpired(locked, cur[t].at) IN
       /\ Commit(c)
       /\ written' = Written(c.items, Nil, Nil)
       /\ Proceed(t, c, "size")
  /\ UNCHANGED <<config, now, freshRun, gets, mutex, left, reenters, issued, mixed>>

tSize(t) ==
  /\ pc[t] = "size"
  /\ LET c == enforceSize(locked) IN
       /\ Commit(c)
       /\ written' = Written(c.items, Nil, Nil)
       /\ Proceed(t, c, "Unlock")
  /\ UNCHANGED <<config, now, freshRun, gets, mutex, left, reenters, issued, mixed>>

\* what the body of the call o, a call other than Set, may leave
BodyOf(o) ==
  CASE o.name = "Invalidate"    -> {Invalidate(locked, o.key)}
    [] o.name = "RemoveOldest"  -> {RemoveOldest(locked)}
    [] o.name = "Get"           -> {Get(locked, o.key, now)}
    [] o.name = "Peek"          -> {Peek(locked, o.key, now)}
    [] o.name = "DeleteExpired" -> {DeleteExpired(locked, now)}
    [] o.name = "InvalidateFn"  ->
         {InvalidateFn(locked, order, o.fn) : order \in Orders(DOMAIN items)}
    [] o.name = "Purge"         ->
         {Purge(locked, order) : order \in Orders(DOMAIN items)}

\* tBody that returns from a miss of Get without the deferred Unlock
tBody_returnsLocked(t) ==
  /\ pc[t] = "body"
  /\ \E c \in BodyOf(cur[t]) :
       /\ Commit(c)
       /\ written' = Written(c.items, Nil, Nil)
       /\ IF cur[t].name = "Get" /\ ~c.ret.ok
          THEN /\ pc' = [pc EXCEPT ![t] = "idle"]
               /\ cur' = [cur EXCEPT ![t] = NoCall]
          ELSE Proceed(t, c, "Unlock")
  /\ gets' = IF cur[t].name = "Get" THEN gets + 1 ELSE gets
  /\ UNCHANGED <<config, now, freshRun, mutex, left, reenters, issued, mixed>>

tBody(t) ==
  /\ pc[t] = "body"
  /\ \E c \in BodyOf(cur[t]) :
       /\ Commit(c)
       /\ written' = Written(c.items, Nil, Nil)
       /\ Proceed(t, c, "Unlock")
  /\ gets' = IF cur[t].name = "Get" THEN gets + 1 ELSE gets
  /\ UNCHANGED <<config, now, freshRun, mutex, left, reenters, issued, mixed>>

\* tOnEvicted of a removeElement that unlocks around the callback
tOnEvicted_unlocked(t) ==
  /\ pc[t] = "onEvicted"
  /\ mutex' = IF pc[t] = "onEvicted" THEN Free ELSE mutex
  /\ pc' = [pc EXCEPT ![t] = IF reenters THEN "cbLock" ELSE cur[t].resume]
  /\ UNCHANGED <<config, stat, items, evictList, now, ret, calls, written,
                 freshRun, fired, gets, cur, left, reenters, issued, mixed>>

\* the callback runs: it returns, or it calls a method of the cache
tOnEvicted(t) ==
  /\ pc[t] = "onEvicted"
  /\ pc' = [pc EXCEPT ![t] = IF reenters THEN "cbLock" ELSE cur[t].resume]
  /\ UNCHANGED <<config, stat, items, evictList, now, ret, calls, written,
                 freshRun, fired, gets, mutex, cur, left, reenters, issued, mixed>>

tUnlock(t) ==
  /\ pc[t] \in {"Unlock", "cbUnlock"}
  /\ mutex' = Free
  /\ pc' = [pc EXCEPT ![t] = IF pc[t] = "cbUnlock" THEN cur[t].resume ELSE "idle"]
  /\ cur' = [cur EXCEPT ![t] = IF pc[t] = "cbUnlock" THEN @ ELSE NoCall]
  /\ UNCHANGED <<config, stat, items, evictList, now, ret, calls, written,
                 freshRun, fired, gets, left, reenters, issued, mixed>>

InitThreads ==
  /\ NewLoadingCache
  /\ ~isLRU
  /\ now = 0
  /\ NoHistory
  /\ mutex = Free
  /\ pc = [t \in Threads |-> "idle"]
  /\ cur = [t \in Threads |-> NoCall]
  /\ left = [t \in Threads |-> MaxCalls]
  /\ reenters \in BOOLEAN
  /\ issued = {}
  /\ mixed = FALSE

NextThreads ==
  \/ \E t \in Threads : \E call \in ThreadCalls(t) : tCall(t, call)
  \/ \E t \in Threads : tLock(t)
  \/ \E t \in Threads : tLookup(t)
  \/ \E t \in Threads : tStore(t)
  \/ \E t \in Threads : tTrim(t)
  \/ \E t \in Threads : tSize(t)
  \/ \E t \in Threads : tBody(t)
  \/ \E t \in Threads : tOnEvicted(t)
  \/ \E t \in Threads : tUnlock(t)

SpecThreads == InitThreads /\ [][NextThreads]_vars

\* ------------------------------------------------------------------------
\* Threads that call every kind of operation, with callbacks that return
\* without calling the cache, under a scheduler that lets every thread that
\* can take a step take one.
\* ------------------------------------------------------------------------
LiveKey == "a"

LiveCalls(t) ==
  {Call("Set", k, ValueOf[t], 0) : k \in Keys}
    \cup {Call(name, LiveKey, Nil, 0) : name \in {"Get", "Peek", "Invalidate"}}
    \cup {Call(name, Nil, Nil, 0) : name \in {"RemoveOldest", "DeleteExpired", "Purge"}}
    \cup {[Call("InvalidateFn", Nil, Nil, 0) EXCEPT !.fn = fn] : fn \in Predicates}

InitLive ==
  /\ InitThreads
  /\ ~reenters

\* a step of thread t inside a call
Step(t) ==
  \/ tLock(t)
  \/ tLookup(t)
  \/ tStore(t)
  \/ tTrim(t)
  \/ tSize(t)
  \/ tBody(t)
  \/ tOnEvicted(t)
  \/ tUnlock(t)

NextLive ==
  \/ \E t \in Threads : \E call \in LiveCalls(t) : tCall(t, call)
  \/ \E t \in Threads : Step(t)

Fair == \A t \in Threads : WF_vars(Step(t))

SpecLive == InitLive /\ [][NextLive]_vars /\ Fair

\* ------------------------------------------------------------------------
\* String(): stats := c.Stat(); size := c.Len(); each of the two locks the
\* mutex, reads and unlocks, and String itself does not lock.
\* ------------------------------------------------------------------------
tString(t) ==
  /\ pc[t] = "idle"
  /\ left[t] > 0
  /\ left' = [left EXCEPT ![t] = @ - 1]
  /\ cur' = [cur EXCEPT ![t] = Call("String", Nil, Nil, 0)]
  /\ pc' = [pc EXCEPT ![t] = "statLock"]
  /\ mixed' = TRUE
  /\ UNCHANGED <<config, stat, items, evictList, now, ret, calls, written,
                 freshRun, fired, gets, mutex, reenters, issued>>

\* c.Lock() of Stat and of Len
tStringLock(t) ==
  /\ pc[t] \in {"statLock", "lenLock"}
  /\ CanLock(t)
  /\ mutex' = t
  /\ pc' = [pc EXCEPT ![t] = IF pc[t] = "statLock" THEN "stat" ELSE "len"]
  /\ UNCHANGED <<config, stat, items, evictList, now, ret, calls, written,
                 freshRun, fired, gets, cur, left, reenters, issued, mixed>>

\* "return c.stat"
tStat(t) ==
  /\ pc[t] = "stat"
  /\ cur' = [cur EXCEPT ![t].stats = stat]
  /\ pc' = [pc EXCEPT ![t] = "statUnlock"]
  /\ UNCHANGED <<config, stat, items, evictList, now, ret, calls, written,
                 freshRun, fired, gets, mutex, left, reenters, issued, mixed>>

\* tLen that takes the size from the counter of the inserts
tLen_fromAdded(t) ==
  /\ pc[t] = "len"
  /\ cur' = [cur EXCEPT ![t].size = stat.Added]
  /\ pc' = [pc EXCEPT ![t] = "lenUnlock"]
  /\ UNCHANGED <<config, stat, items, evictList, now, ret, calls, written,
                 freshRun, fired, gets, mutex, left, reenters, issued, mixed>>

\* "return c.evictList.Len()"
tLen(t) ==
  /\ pc[t] = "len"
  /\ cur' = [cur EXCEPT ![t].size = Len(evictList)]
  /\ pc' = [pc EXCEPT ![t] = "lenUnlock"]
  /\ UNCHANGED <<config, stat, items, evictList, now, ret, calls, written,
                 freshRun, fired, gets, mutex, left, reenters, issued, mixed>>

\* the deferred c.Unlock() of Stat and of Len; after that of Len String
\* formats stats and size and returns
tStringUnlock(t) ==
  /\ pc[t] \in {"statUnlock", "lenUnlock"}
  /\ mutex' = Free
  /\ pc' = [pc EXCEPT ![t] = IF pc[t] = "statUnlock" THEN "lenLock" ELSE "idle"]
  /\ cur' = [cur EXCEPT ![t] = IF pc[t] = "statUnlock" THEN @ ELSE NoCall]
  /\ UNCHANGED <<config, stat, items, evictList, now, ret, calls, written,
                 freshRun, fired, gets, left, reenters, issued, mixed>>

NextString ==
  \/ NextThreads
  \/ \E t \in Threads : tString(t)
  \/ \E t \in Threads : tStringLock(t)
  \/ \E t \in Threads : tStat(t)
  \/ \E t \in Threads : tLen(t)
  \/ \E t \in Threads : tStringUnlock(t)

SpecString == InitThreads /\ [][NextString]_vars

\* ------------------------------------------------------------------------
\* Observers
\* ------------------------------------------------------------------------
\* Len()
LenOf == Len(evictList)

\* Keys()
KeysOf == keys(evictList)

TypeOK ==
  /\ ttl \in {noEvictionTTL} \cup ConfiguredTTLs
  /\ maxKeys \in MaxKeysOptions
  /\ isLRU \in BOOLEAN
  /\ onEvicted \in BOOLEAN
  /\ DOMAIN items \subseteq Keys
  /\ now \in 0..MaxTime
  /\ \A i \in DOMAIN evictList : evictList[i].key \in Keys /\ evictList[i].value \in Values

\* ------------------------------------------------------------------------
\* Properties
\* ------------------------------------------------------------------------
\* the inputs of Set
SetInputs == Keys \X Values \X CallTTLs

\* Set called in the current state with the input in = <<key, value, d>>
SetNow(in) == Set(locked, in[1], in[2], effectiveTTL(in[3]), now)

\* the entry carrying key k is in the list l and is expired at t
ExpiredIn(l, k, t) ==
  \E i \in DOMAIN l : l[i].key = k /\ After(t, l[i].expiresAt)

\* C1: with MaxKeys = n > 0 the cache never holds more than n entries, in
\* every state between operations and after a Set of any input in any state.
C1_LenWithinMaxKeys ==
  maxKeys > 0 =>
    /\ Len(evictList) <= maxKeys
    /\ Cardinality(DOMAIN items) <= maxKeys
    /\ \A in \in SetInputs : Len(SetNow(in).evictList) <= maxKeys

\* a run of inserts only has pushed the cache over its cap and was cut back
C1_Witness ==
  /\ maxKeys > 0
  /\ freshRun # Void
  /\ Len(freshRun) > maxKeys
  /\ Len(evictList) = maxKeys

\* C2: Added - Evicted = Len() in every state, and Purge counts every entry
\* it drops as evicted.
C2_AddedMinusEvicted ==
  /\ stat.Added - stat.Evicted = Len(evictList)
  /\ \A order \in Orders(DOMAIN items) :
       LET p == Purge(locked, order) IN
         /\ p.stat.Evicted = stat.Evicted + Len(evictList)
         /\ p.stat.Added - p.stat.Evicted = Len(p.evictList)

\* the last step dropped two entries at once and left the cache empty
C2_Witness ==
  /\ Len(calls) >= 2
  /\ evictList = <<>>
  /\ stat.Added = stat.Evicted

\* the last n elements of s
LastN(s, n) == SubSeq(s, IF Len(s) > n THEN Len(s) - n + 1 ELSE 1, Len(s))

\* the keys of ks without k
Without(ks, k) == SelectSeq(ks, LAMBDA x : x # k)

\* the oldest entry of the current state
BackItem == evictList[Len(evictList)]

\* an empty cache of the current configuration
Empty ==
  [items |-> EmptyMap, evictList |-> <<>>,
   stat |-> [Hits |-> 0, Misses |-> 0, Added |-> 0, Evicted |-> 0],
   calls |-> <<>>, ret |-> NoResult]

\* Set a; Set b; Get a; Set c on an empty cache, all at instant t
SetSetGetSet(t) ==
  Set(Get(Set(Set(Empty, "a", "v1", ttl, t), "b", "v1", ttl, t), "a", t),
      "c", "v1", ttl, t)

\* C3: a key that is in the cache and not past its expires_at is returned by
\* Peek and by Get with ok = true and the value of the most recent Set on it.
C3_RoundTrip ==
  \A k \in Keys :
    (k \in DOMAIN items /\ ~After(now, Item(locked, k).expiresAt)) =>
      /\ written[k] \in Values
      /\ Peek(locked, k, now).ret = Result(Nil, written[k], TRUE)
      /\ Get(locked, k, now).ret = Result(k, written[k], TRUE)

\* a Get has returned, after some time, the value last set for a key that is
\* still in the cache
C3_Witness ==
  /\ now > 0
  /\ ret.ok
  /\ ret.get \in DOMAIN items
  /\ ret.value = written[ret.get]
  /\ stat.Hits = 1

\* C4: Get and Peek of a key whose entry is present but expired report
\* ok = false and remove nothing: index, recency order, Added and Evicted stay,
\* no callback fires, and Get only increments Misses.
C4_LazyExpiry ==
  \A k \in DOMAIN items :
    After(now, Item(locked, k).expiresAt) =>
      LET g == Get(locked, k, now)
          p == Peek(locked, k, now)
      IN /\ ~g.ret.ok
         /\ g.items = items
         /\ g.evictList = evictList
         /\ g.stat = [stat EXCEPT !.Misses = @ + 1]
         /\ g.calls = <<>>
         /\ ~p.ret.ok
         /\ p.items = items
         /\ p.evictList = evictList
         /\ p.stat = stat
         /\ p.calls = <<>>

\* the Get of the last step missed on a key whose expired entry is still there
C4_Witness ==
  /\ ret.get \in DOMAIN items
  /\ ~ret.ok
  /\ After(now, Item(locked, ret.get).expiresAt)
  /\ stat.Misses = 1

\* C5: in LRC mode Get leaves the order of Keys() as it is, so a Set that
\* then exceeds the cap still removes the oldest written entry; Set a; Set b;
\* Get a; Set c with MaxKeys = 2 leaves Keys() = [b, c].
C5_LRCGetKeepsOrder ==
  ~isLRU =>
    /\ \A k \in Keys : keys(Get(locked, k, now).evictList) = KeysOf
    /\ \A k \in Keys, in \in SetInputs :
         (maxKeys > 0 /\ Len(evictList) = maxKeys /\ in[1] \notin DOMAIN items) =>
           keys(Set(Get(locked, k, now), in[1], in[2], effectiveTTL(in[3]), now).evictList)
             = Tail(KeysOf) \o <<in[1]>>
    /\ maxKeys = 2 => keys(SetSetGetSet(now).evictList) = <<"b", "c">>

\* the Get of the last step hit the oldest entry, which is still the oldest
C5_Witness ==
  /\ ~isLRU
  /\ ret.ok
  /\ Len(evictList) = 2
  /\ ret.get = evictList[2].key

\* C6: in LRU mode Get of a present, non-expired key moves it to the newest
\* end of Keys() and keeps the order of the others, so a Set that then exceeds
\* the cap removes the least recently accessed entry; Set a; Set b; Get a;
\* Set c with MaxKeys = 2 leaves Keys() = [a, c].
C6_LRUGetMovesToNewest ==
  isLRU =>
    /\ \A k \in DOMAIN items :
         ~After(now, Item(locked, k).expiresAt) =>
           /\ keys(Get(locked, k, now).evictList) = Without(KeysOf, k) \o <<k>>
           /\ \A in \in SetInputs :
                (maxKeys > 0 /\ Len(evictList) = maxKeys /\ in[1] \notin DOMAIN items) =>
                  keys(Set(Get(locked, k, now), in[1], in[2], effectiveTTL(in[3]), now).evictList)
                    = Tail(Without(KeysOf, k) \o <<k>>) \o <<in[1]>>
    /\ maxKeys = 2 => keys(SetSetGetSet(now).evictList) = <<"a", "c">>

\* the Get of the last step hit an entry written before the other one, and
\* it is now the newest
C6_Witness ==
  /\ isLRU
  /\ ret.ok
  /\ Len(evictList) = 2
  /\ ret.get = evictList[1].key
  /\ evictList[1].expiresAt >= noEvictionTTL
  /\ evictList[1].expiresAt < evictList[2].expiresAt

\* C7: a Set of a new key that makes the size exceed MaxKeys removes exactly
\* one entry, the oldest one, expired or not; after inserts of distinct keys
\* only, with nothing expired, the cache holds the MaxKeys last inserted keys.
C7_SizeCapEvictsBack ==
  maxKeys > 0 =>
    /\ \A in \in SetInputs :
         (in[1] \notin DOMAIN items /\ Len(evictList) + 1 > maxKeys) =>
           LET c2 == SetNow(in) IN
             /\ c2.evictList =
                  <<cacheItem(in[1], in[2], now + effectiveTTL(in[3]))>>
                    \o SubSeq(evictList, 1, Len(evictList) - 1)
             /\ DOMAIN c2.items = (DOMAIN items \ {BackItem.key}) \cup {in[1]}
             /\ c2.stat.Evicted = stat.Evicted + 1
             /\ c2.calls = << <<BackItem.key, BackItem.value>> >>
    /\ freshRun # Void => KeysOf = LastN(freshRun, maxKeys)

\* the third insert of a run of inserts has just evicted the first key
C7_Witness ==
  /\ maxKeys = 2
  /\ freshRun # Void
  /\ Len(freshRun) = 3
  /\ KeysOf = SubSeq(freshRun, 2, 3)
  /\ Len(calls) = 1
  /\ calls[1][1] = freshRun[1]

\* C8: every Set made while a TTL is configured removes the oldest entry if
\* that entry is expired at the time of the call.
C8_EverySetTrims ==
  ttl # noEvictionTTL =>
    \A in \in SetInputs :
      (evictList # <<>> /\ BackItem.key # in[1]
         /\ After(now, BackItem.expiresAt)) =>
        BackItem.key \notin DOMAIN SetNow(in).items

\* C9: with the default TTL and MaxKeys = 0, Set, Get and Peek never remove
\* an entry: Evicted stays, no callback fires and every key stays in Keys().
C9_DefaultNeverEvicts ==
  (ttl = noEvictionTTL /\ maxKeys = 0) =>
    /\ \A in \in SetInputs :
         LET c2 == SetNow(in) IN
           /\ c2.stat.Evicted = stat.Evicted
           /\ c2.calls = <<>>
           /\ DOMAIN c2.items = DOMAIN items \cup {in[1]}
           /\ {c2.evictList[i].key : i \in DOMAIN c2.evictList}
                = {evictList[i].key : i \in DOMAIN evictList} \cup {in[1]}
    /\ \A k \in Keys :
         /\ Get(locked, k, now).stat.Evicted = stat.Evicted
         /\ Get(locked, k, now).items = items
         /\ Peek(locked, k, now).evictList = evictList
         /\ Peek(locked, k, now).items = items
    /\ freshRun # Void =>
         /\ stat.Evicted = 0
         /\ \A i \in DOMAIN freshRun : freshRun[i] \in DOMAIN items

\* under the default configuration a key was written with the default TTL
\* while the oldest entry was expired, and nothing has been evicted
C9_Witness ==
  /\ ttl = noEvictionTTL
  /\ maxKeys = 0
  /\ stat.Evicted = 0
  /\ Len(evictList) = 2
  /\ After(now, evictList[2].expiresAt)
  /\ evictList[1].expiresAt = now + noEvictionTTL

\* C10: after DeleteExpired no entry that is expired at the time of the call
\* remains, in LRC and in LRU mode, whatever the TTLs and the order.
C10_DeleteExpiredRemovesAll ==
  LET c2 == DeleteExpired(locked, now) IN
    \A i \in DOMAIN c2.evictList : ~After(now, c2.evictList[i].expiresAt)

\* the entries of l that are not expired at t, in the order of l
LiveAt(l, t) == SelectSeq(l, LAMBDA e : ~After(t, e.expiresAt))

\* C11: DeleteExpired removes no entry that is not expired at the call: the
\* live entries keep value, expiry and relative order, Hits, Misses and Added
\* stay, every callback is for an expired entry, and with nothing expired the
\* call changes nothing and fires no callback.
C11_DeleteExpiredKeepsLive ==
  LET c2 == DeleteExpired(locked, now) IN
    /\ LiveAt(c2.evictList, now) = LiveAt(evictList, now)
    /\ \A k \in DOMAIN items :
         ~After(now, Item(locked, k).expiresAt) =>
           k \in DOMAIN c2.items /\ c2.items[k] = items[k]
    /\ c2.stat.Hits = stat.Hits
    /\ c2.stat.Misses = stat.Misses
    /\ c2.stat.Added = stat.Added
    /\ \A j \in DOMAIN c2.calls :
         \E i \in DOMAIN evictList :
           /\ evictList[i].key = c2.calls[j][1]
           /\ After(now, evictList[i].expiresAt)
    /\ LiveAt(evictList, now) = evictList => c2 = locked

\* in LRU mode the oldest entry is live and a newer one is expired:
\* DeleteExpired passes over the first and removes the second
C11_Witness ==
  /\ isLRU
  /\ Len(evictList) = 2
  /\ ~After(now, evictList[2].expiresAt)
  /\ After(now, evictList[1].expiresAt)
  /\ DeleteExpired(locked, now).evictList = <<evictList[2]>>
  /\ DeleteExpired(locked, now).calls = << <<evictList[1].key, evictList[1].value>> >>

\* what every operation but Get, called with every input in the current
\* state, ends with
AfterCallButGet ==
  {SetNow(in) : in \in SetInputs}
    \cup {Peek(locked, k, now) : k \in Keys}
    \cup {Invalidate(locked, k) : k \in Keys}
    \cup {InvalidateFn(locked, o[1], o[2]) : o \in Orders(DOMAIN items) \X Predicates}
    \cup {RemoveOldest(locked), DeleteExpired(locked, now)}
    \cup {Purge(locked, order) : order \in Orders(DOMAIN items)}

\* what every operation, called with every input in the current state, ends
\* with
AfterAnyCall ==
  {Get(locked, k, now) : k \in Keys} \cup AfterCallButGet


\* the <<key, value>> of the entries of the current state that c2 no longer
\* holds
Dropped(c2) ==
  {<<evictList[i].key, evictList[i].value>> :
     i \in {j \in DOMAIN evictList : evictList[j].key \notin DOMAIN c2.items}}

\* C12: with a callback configured every operation calls it exactly once per
\* entry it removes, with the key and the current value of that entry, and
\* never for an entry that stays; the number of calls made equals Evicted.
C12_CallbackPerRemoval ==
  /\ fired = stat.Evicted
  /\ \A c2 \in AfterAnyCall :
       /\ {c2.calls[j] : j \in DOMAIN c2.calls} = Dropped(c2)
       /\ Len(c2.calls) = Cardinality(Dropped(c2))
       /\ Len(c2.calls) = c2.stat.Evicted - stat.Evicted
       /\ \A j \in DOMAIN c2.calls : c2.calls[j][1] \notin DOMAIN c2.items

\* the last step removed an entry and reported it while another entry stayed,
\* after an earlier removal
C12_Witness ==
  /\ onEvicted
  /\ Len(calls) >= 1
  /\ fired >= 2
  /\ evictList # <<>>
  /\ calls[1][1] \notin DOMAIN items

\* every thread is outside the cache
AllReturned == \A t \in Threads : pc[t] = "idle"

\* the keys the threads called Set on
KeysSet == {p[1] : p \in issued}

\* C13: on a cache without size cap and with the default TTL, when threads
\* have called nothing but Set and every call has returned, Len() and Added
\* equal the number of distinct keys written and every key holds a value that
\* one of the Sets on it wrote, whatever the interleaving.
C13_ConcurrentWritersConverge ==
  (AllReturned /\ ~mixed /\ maxKeys = 0 /\ ttl = noEvictionTTL) =>
    /\ Cardinality(DOMAIN items) = Cardinality(KeysSet)
    /\ Len(evictList) = Cardinality(KeysSet)
    /\ stat.Added = Cardinality(KeysSet)
    /\ DOMAIN items = KeysSet
    /\ \A i \in DOMAIN evictList :
         <<evictList[i].key, evictList[i].value>> \in issued

\* three threads have returned from Set, two of them having written
\* different values to the same key
C13_Witness ==
  /\ AllReturned
  /\ ~mixed
  /\ maxKeys = 0
  /\ ttl = noEvictionTTL
  /\ \A t \in Threads : left[t] = 0
  /\ Cardinality(issued) = 3
  /\ Len(evictList) = 2

\* the shared state of the cache
shared == <<items, evictList, stat>>

\* C14: at most one thread is between c.Lock() and c.Unlock(), the callback
\* runs there, and every step that reads or writes the index, the recency
\* list or the counters is taken by the thread that holds the mutex.
C14_MutualExclusion ==
  /\ [](/\ \A t \in Threads : pc[t] \in Inside => mutex = t
        /\ Cardinality({t \in Threads : pc[t] \in Inside}) <= 1)
  /\ [][/\ shared' # shared =>
            mutex \in Threads /\ pc[mutex] \in Accessing /\ mutex' = mutex
        /\ \A t \in Threads :
             (pc[t] \in Accessing /\ pc'[t] # pc[t]) => mutex = t
        /\ \A u \in Threads :
             pc[u] = "onEvicted" => (mutex = u /\ shared' = shared)]_vars

\* one thread is in the callback while another waits at c.Lock()
C14_Witness ==
  \E t \in Threads :
    /\ pc[t] = "onEvicted"
    /\ mutex = t
    /\ \E u \in Threads \ {t} : pc[u] = "Lock"

\* C15: a callback that calls a method of the cache stops at c.Lock() with
\* the mutex held by its own thread: it stays there for ever, the operation
\* that called it never returns, the state of the cache no longer changes
\* and every other thread that calls a method stops at c.Lock() too.
C15_ReentrantCallbackDeadlocks ==
  /\ [](\A t \in Threads :
          /\ pc[t] # "cbUnlock"
          /\ pc[t] = "cbLock" =>
               /\ mutex = t
               /\ \A u \in Threads \ {t} : pc[u] \in {"idle", "Lock"})
  /\ [][\A t \in Threads :
          /\ (reenters /\ pc[t] = "onEvicted" /\ pc'[t] # pc[t]) =>
               pc'[t] = "cbLock"
          /\ pc[t] = "cbLock" =>
               /\ pc'[t] = "cbLock"
               /\ mutex' = t
               /\ shared' = shared
               /\ \A u \in Threads \ {t} : pc'[u] \in {"idle", "Lock"}]_vars

\* the callback of one thread waits at c.Lock() and so does the call another
\* thread made
C15_Witness ==
  \E t \in Threads :
    /\ reenters
    /\ pc[t] = "cbLock"
    /\ mutex = t
    /\ \E u \in Threads \ {t} : pc[u] = "Lock"

\* C16: Get adds one to Hits if the key is present and not expired at the
\* call and one to Misses otherwise, and leaves the other of the two; no other
\* operation changes Hits or Misses; Hits + Misses is the number of Get calls
\* that have returned.
C16_HitMissAccounting ==
  /\ stat.Hits + stat.Misses = gets
  /\ \A k \in Keys :
       LET g == Get(locked, k, now) IN
         IF k \in DOMAIN items /\ ~After(now, Item(locked, k).expiresAt)
         THEN g.stat.Hits = stat.Hits + 1 /\ g.stat.Misses = stat.Misses
         ELSE g.stat.Hits = stat.Hits /\ g.stat.Misses = stat.Misses + 1
  /\ \A c2 \in AfterCallButGet :
       c2.stat.Hits = stat.Hits /\ c2.stat.Misses = stat.Misses

\* a Get of a key that is not in a non-empty cache has returned and was
\* counted as a miss
C16_Witness ==
  /\ gets = 1
  /\ stat.Misses = 1
  /\ stat.Hits = 0
  /\ ret.get \in Keys \ DOMAIN items
  /\ evictList # <<>>

\* C17: Peek of a present, of an expired and of an absent key changes
\* nothing in either mode: the entries with their values and expiries, the
\* recency order, hence Keys() and the oldest entry, and the four counters are
\* as before, and no callback is called.
C17_PeekChangesNothing ==
  \A k \in Keys :
    LET p == Peek(locked, k, now) IN
      /\ p.items = items
      /\ p.evictList = evictList
      /\ keys(p.evictList) = KeysOf
      /\ p.stat = stat
      /\ p.calls = <<>>
      /\ RemoveOldest(p) = [RemoveOldest(locked) EXCEPT !.ret = p.ret]

\* in LRU mode a Peek has returned the value of the oldest of two entries
\* with different values, the other being expired, and it is still the oldest
C17_Witness ==
  /\ isLRU
  /\ ret.ok
  /\ ret.get = Nil
  /\ Len(evictList) = 2
  /\ evictList[2].value = ret.value
  /\ evictList[1].value # ret.value
  /\ After(now, evictList[1].expiresAt)
  /\ Cardinality(DOMAIN items) < Cardinality(Keys)

\* C18: Set on a key that is in the index puts the new value and the new
\* expires_at on its entry and moves it to the front in LRC and in LRU mode;
\* the other entries keep their order, Len(), Added and the other counters
\* stay, nothing is removed.
C18_SetExistingMovesToFront ==
  \A in \in SetInputs :
    in[1] \in DOMAIN items =>
      LET c2 == SetNow(in) IN
        /\ c2.evictList =
             <<cacheItem(in[1], in[2], now + effectiveTTL(in[3]))>>
               \o Remove(evictList, in[1])
        /\ keys(c2.evictList) = Without(KeysOf, in[1]) \o <<in[1]>>
        /\ c2.items = items
        /\ Len(c2.evictList) = Len(evictList)
        /\ c2.stat = stat
        /\ c2.calls = <<>>

\* in LRC mode, some time after the oldest of two entries was written, a Set
\* on its key with another value makes it the newest, with the new value and
\* a later expiry
C18_Witness ==
  /\ ~isLRU
  /\ now > 0
  /\ Len(evictList) = 2
  /\ \E v \in Values \ {BackItem.value} :
       LET c2 == Set(locked, BackItem.key, v, effectiveTTL(0), now) IN
         /\ c2.evictList[1].key = BackItem.key
         /\ c2.evictList[1].value = v
         /\ c2.evictList[1].expiresAt > BackItem.expiresAt
         /\ c2.evictList[2] = evictList[1]

\* C19: Keys() lists every key of the index exactly once, from the oldest
\* (back) to the newest (front) entry of the recency order, expired entries
\* included, so its length is Len(); after inserts of new keys only into a
\* cache without size cap it is the order of insertion.
C19_KeysOldestToNewest ==
  /\ Len(KeysOf) = LenOf
  /\ Len(KeysOf) = Cardinality(DOMAIN items)
  /\ {KeysOf[i] : i \in DOMAIN KeysOf} = DOMAIN items
  /\ \A i, j \in DOMAIN KeysOf : i # j => KeysOf[i] # KeysOf[j]
  /\ \A i \in DOMAIN KeysOf : KeysOf[i] = evictList[Len(evictList) + 1 - i].key
  /\ \A i \in DOMAIN evictList :
       After(now, evictList[i].expiresAt) =>
         \E j \in DOMAIN KeysOf : KeysOf[j] = evictList[i].key
  /\ (freshRun # Void /\ maxKeys = 0) => KeysOf = freshRun

\* Keys() of two entries in the order they were written in, the older one
\* expired
C19_Witness ==
  /\ Len(evictList) = 2
  /\ After(now, evictList[2].expiresAt)
  /\ ~After(now, evictList[1].expiresAt)
  /\ evictList[2].expiresAt < evictList[1].expiresAt
  /\ KeysOf = <<evictList[2].key, evictList[1].key>>
  /\ stat.Evicted = 0

\* C20: Set(K, V, ttl) stores expires_at = now + the cache-wide TTL when
\* ttl is zero, so the entry is not expired at once, and now + ttl otherwise,
\* whatever the cache-wide TTL; GetExpiration(K) then returns that instant
\* with true, and the zero time with false for a key not in the cache.
C20_PerCallTTL ==
  /\ \A in \in SetInputs :
       LET c2 == SetNow(in)
           at == IF in[3] = 0 THEN now + ttl ELSE now + in[3]
       IN /\ GetExpiration(c2, in[1]) = <<at, TRUE>>
          /\ c2.evictList[1] = cacheItem(in[1], in[2], at)
          /\ ~After(now, at)
          /\ at > now
  /\ \A k \in Keys \ DOMAIN items : GetExpiration(locked, k) = <<0, FALSE>>
  /\ \A k \in DOMAIN items :
       /\ GetExpiration(locked, k)[2]
       /\ \E t \in 0..now, d \in (CallTTLs \ {0}) \cup {ttl} :
            GetExpiration(locked, k)[1] = t + d

\* one entry written with a per-call TTL and, an hour later, one written
\* with the zero TTL, in a cache whose TTL is not the per-call one
C20_Witness ==
  /\ now = 1
  /\ Len(evictList) = 2
  /\ GetExpiration(locked, evictList[2].key) = <<1, TRUE>>
  /\ GetExpiration(locked, evictList[1].key) = <<now + ttl, TRUE>>
  /\ \E k \in Keys : GetExpiration(locked, k) = <<0, FALSE>>

\* C21: Invalidate(K) removes the entry of K if there is one, counting it
\* and calling the callback once, and changes nothing for a key that is not
\* in the cache; Invalidate(K) twice leaves the state, the counters and the
\* callback calls of Invalidate(K) once.
C21_InvalidateIdempotent ==
  \A k \in Keys :
    LET c1 == Invalidate(locked, k)
        c2 == Invalidate(c1, k)
    IN /\ k \notin DOMAIN items => c1 = locked
       /\ k \in DOMAIN items =>
            /\ c1.evictList = Remove(evictList, k)
            /\ DOMAIN c1.items = DOMAIN items \ {k}
            /\ c1.stat = [stat EXCEPT !.Evicted = @ + 1]
            /\ c1.calls = << <<k, Item(locked, k).value>> >>
       /\ k \notin DOMAIN c1.items
       /\ c2 = c1

\* the last step removed one of two entries and called the callback for
\* it; Invalidate of that key now finds nothing
C21_Witness ==
  /\ Len(calls) = 1
  /\ calls[1][1] \notin DOMAIN items
  /\ Len(evictList) = 1
  /\ stat.Added = 2
  /\ stat.Evicted = 1
  /\ Invalidate(locked, calls[1][1]) = locked
  /\ Invalidate(locked, evictList[1].key).evictList = <<>>

\* C22: Purge removes every entry, expired or not: Len() is 0 and Keys() is
\* empty afterwards, Evicted has grown by the previous Len(), the callback was
\* called once per entry with its key and value, in the order of the range
\* over the map, and a second Purge changes nothing.
C22_PurgeRemovesAll ==
  \A order \in Orders(DOMAIN items) :
    LET p == Purge(locked, order) IN
      /\ p.evictList = <<>>
      /\ keys(p.evictList) = <<>>
      /\ p.items = EmptyMap
      /\ p.stat = [stat EXCEPT !.Evicted = @ + Len(evictList)]
      /\ p.calls = [i \in DOMAIN order |->
                      <<order[i], Item(locked, order[i]).value>>]
      /\ Len(p.calls) = Len(evictList)
      /\ Orders(DOMAIN p.items) = {<<>>}
      /\ Purge(p, <<>>) = p

\* at instant 0, when nothing is expired, the last step removed the entries
\* of a and b at once and left the cache empty
C22_Witness ==
  /\ now = 0
  /\ Len(calls) = 2
  /\ {calls[1][1], calls[2][1]} = {"a", "b"}
  /\ evictList = <<>>
  /\ items = EmptyMap
  /\ stat.Evicted = 2

\* C23: InvalidateFn(pred) removes exactly the entries whose key satisfies
\* pred: no such key is in the cache afterwards, the other entries are there
\* with their values and in their order, Evicted has grown by the number of
\* entries removed and the callback was called once for each.
C23_InvalidateFnExact ==
  \A fn \in SUBSET Keys, order \in Orders(DOMAIN items) :
    LET c2 == InvalidateFn(locked, order, fn)
        n  == Cardinality(DOMAIN items \cap fn)
    IN /\ DOMAIN c2.items = DOMAIN items \ fn
       /\ c2.evictList = SelectSeq(evictList, LAMBDA e : e.key \notin fn)
       /\ c2.stat = [stat EXCEPT !.Evicted = @ + n]
       /\ Len(c2.calls) = n
       /\ {c2.calls[j] : j \in DOMAIN c2.calls}
            = {<<k, Item(locked, k).value>> : k \in DOMAIN items \cap fn}

\* the cache holds a and, newer, b: the predicate of b and c removes b and
\* keeps a
C23_Witness ==
  /\ KeysOf = <<"a", "b">>
  /\ \A order \in Orders(DOMAIN items) :
       LET c2 == InvalidateFn(locked, order, {"b", "c"}) IN
         /\ c2.evictList = <<evictList[2]>>
         /\ c2.calls = << <<"b", evictList[1].value>> >>
         /\ c2.stat.Evicted = stat.Evicted + 1

\* C24: RemoveOldest on a non-empty cache removes the back entry, the first
\* key of Keys(), and nothing else, reports its key and value with present =
\* true and leaves the others in order; on an empty cache it changes nothing,
\* no counter and no callback, and reports present = false.
C24_RemoveOldest ==
  LET r == RemoveOldest(locked) IN
    IF evictList # <<>>
    THEN /\ r.evictList = SubSeq(evictList, 1, Len(evictList) - 1)
         /\ keys(r.evictList) = Tail(KeysOf)
         /\ DOMAIN r.items = DOMAIN items \ {KeysOf[1]}
         /\ r.stat = [stat EXCEPT !.Evicted = @ + 1]
         /\ r.calls = << <<KeysOf[1], BackItem.value>> >>
         /\ RemoveOldestReport(locked) = <<KeysOf[1], BackItem.value, TRUE>>
    ELSE /\ r = locked
         /\ RemoveOldestReport(locked) = <<Nil, Nil, FALSE>>

\* in LRU mode a Get has just made the older of two entries the newest:
\* RemoveOldest removes the other one and reports it
C24_Witness ==
  /\ isLRU
  /\ Len(evictList) = 2
  /\ ret.ok
  /\ ret.get = evictList[1].key
  /\ evictList[1].value # evictList[2].value
  /\ RemoveOldest(locked).evictList = <<evictList[1]>>
  /\ RemoveOldestReport(locked) = <<evictList[2].key, evictList[2].value, TRUE>>
  /\ RemoveOldest(RemoveOldest(RemoveOldest(locked))) = RemoveOldest(RemoveOldest(locked))

\* C25: the passage of time alone changes nothing: over a step of the clock
\* Len(), Keys(), the entries and the four counters stay and no callback is
\* called; an entry, expired or not, leaves the cache only in a step that is
\* no step of the clock and no Get or Peek, and that step counts it in
\* Evicted.
C25_NoBackgroundExpiry ==
  /\ [][now' # now =>
          /\ items' = items
          /\ evictList' = evictList
          /\ keys(evictList') = KeysOf
          /\ stat' = stat
          /\ fired' = fired
          /\ calls' = <<>>]_vars
  /\ [][DOMAIN items \ DOMAIN items' # {} =>
          /\ now' = now
          /\ gets' = gets
          /\ ~ret'.ok
          /\ stat'.Evicted = stat.Evicted + Len(calls')
          /\ Len(calls') >= Cardinality(DOMAIN items \ DOMAIN items')]_vars
  /\ [](\A k \in Keys :
          /\ Get(locked, k, now).evictList = evictList \/ isLRU
          /\ Get(locked, k, now).items = items
          /\ Peek(locked, k, now).items = items)

\* the clock has run to its end over two entries that are both expired and
\* nothing was ever removed
C25_Witness ==
  /\ now = MaxTime
  /\ Len(evictList) = 2
  /\ \A i \in DOMAIN evictList : After(now, evictList[i].expiresAt)
  /\ stat.Evicted = 0
  /\ fired = 0
  /\ ret = NoResult

\* the parts of a state that Get and Peek can change
Effect(c) == <<c.items, c.evictList, c.stat, c.calls>>

\* C26: the v2 adapter and the engine it wraps have the same effect on the
\* state and return the same flag; Get and Peek of the adapter return the
\* engine's value when the flag is true and the zero value, never the stored
\* one, when it is false, for an absent and for an expired key.
C26_AdapterAgreesWithEngine ==
  \A k \in Keys :
    LET ag == adapterGet(locked, k, now)
        eg == v3Get(locked, k, now)
        ap == adapterPeek(locked, k, now)
        ep == v3Peek(locked, k, now)
    IN /\ Effect(ag) = Effect(eg)
       /\ Effect(ap) = Effect(ep)
       /\ ag.ret.ok = eg.ret.ok
       /\ ap.ret.ok = ep.ret.ok
       /\ ag.ret.value = IF eg.ret.ok THEN eg.ret.value ELSE Nil
       /\ ap.ret.value = IF ep.ret.ok THEN ep.ret.value ELSE Nil
       /\ ~ag.ret.ok => ag.ret.value \notin Values
       /\ ~ap.ret.ok => ap.ret.value \notin Values
       /\ ag = Get(locked, k, now)
       /\ ap = Peek(locked, k, now)

\* a Get has returned the zero value and false for a key whose entry is
\* expired and still holds its value, which the engine returns
C26_Witness ==
  /\ gets = 1
  /\ ret = Result(ret.get, Nil, FALSE)
  /\ ret.get \in DOMAIN items
  /\ v3Peek(locked, ret.get, now).ret = Result(Nil, written[ret.get], FALSE)
  /\ written[ret.get] \in Values

\* C27: Get and Peek of the v3 surface return, for a key that is present
\* but expired, the value last written for it together with false, and for a
\* key that is not in the index the zero value with false.
C27_ExpiredReturnsStoredValue ==
  \A k \in Keys :
    LET g == v3Get(locked, k, now)
        p == v3Peek(locked, k, now)
    IN /\ (k \in DOMAIN items /\ After(now, Item(locked, k).expiresAt)) =>
            /\ written[k] \in Values
            /\ g.ret = Result(k, written[k], FALSE)
            /\ p.ret = Result(Nil, written[k], FALSE)
       /\ k \notin DOMAIN items =>
            /\ g.ret = Result(k, Nil, FALSE)
            /\ p.ret = Result(Nil, Nil, FALSE)

\* the cache holds one entry, expired, with the value v2, and lacks the
\* key c
C27_Witness ==
  \E k \in DOMAIN items :
    /\ After(now, Item(locked, k).expiresAt)
    /\ stat.Added = 1
    /\ written[k] = "v2"
    /\ v3Get(locked, k, now).ret = Result(k, "v2", FALSE)
    /\ v3Get(locked, "c", now).ret = Result("c", Nil, FALSE)

\* Values()
ValuesOf == values(evictList, now)

\* the keys of Keys() whose entry is not expired
LiveKeys == SelectSeq(KeysOf, LAMBDA k : ~After(now, Item(locked, k).expiresAt))

\* C28: Values() returns the values of the entries that are not expired at
\* the call, and only those, from the oldest to the newest; when every entry
\* is expired and none was removed Values() is empty while Len() counts them.
C28_ValuesSkipExpired ==
  /\ Len(ValuesOf) = Len(LiveKeys)
  /\ \A i \in DOMAIN ValuesOf : ValuesOf[i] = written[LiveKeys[i]]
  /\ (\A i \in DOMAIN evictList : After(now, evictList[i].expiresAt)) =>
       ValuesOf = <<>> /\ LenOf = Len(evictList)
  /\ (freshRun # Void /\ maxKeys = 0) =>
       ValuesOf = [i \in DOMAIN freshRun |-> written[freshRun[i]]]

\* two entries, both expired, neither removed: Values() is empty and Len()
\* is two
C28_Witness ==
  /\ LenOf = 2
  /\ \A i \in DOMAIN evictList : After(now, evictList[i].expiresAt)
  /\ ValuesOf = <<>>
  /\ Len(KeysOf) = 2

\* C29 as stated: Values() has the length of Keys() and of Len(), expired
\* entries included, the i-th value belonging to the i-th key.
C29_ValuesUnfiltered ==
  /\ Len(ValuesOf) = Len(KeysOf)
  /\ Len(ValuesOf) = LenOf
  /\ \A i \in DOMAIN KeysOf : ValuesOf[i] = Item(locked, KeysOf[i]).value

\* C29: Values() follows the order of Keys(), oldest to newest, but leaves
\* out the expired entries: it is never longer than Keys(), it has the length
\* of Keys(), which is Len(), exactly when no entry is expired, and then the
\* i-th value belongs to the i-th key.
C29_ValuesFollowKeys ==
  /\ Len(KeysOf) = LenOf
  /\ Len(ValuesOf) <= Len(KeysOf)
  /\ Len(ValuesOf) = Len(KeysOf) <=> LiveKeys = KeysOf
  /\ LiveKeys = KeysOf =>
       \A i \in DOMAIN KeysOf : ValuesOf[i] = Item(locked, KeysOf[i]).value
  /\ LET pos(i) == Len(SelectSeq(SubSeq(evictList, i, Len(evictList)),
                                  LAMBDA e : ~After(now, e.expiresAt)))
     IN \A i \in DOMAIN evictList :
          ~After(now, evictList[i].expiresAt) => ValuesOf[pos(i)] = evictList[i].value

\* the older of two entries with different values is expired: Keys() has
\* both keys, Values() the value of the newer one only
C29_Witness ==
  /\ Len(KeysOf) = 2
  /\ After(now, evictList[2].expiresAt)
  /\ ~After(now, evictList[1].expiresAt)
  /\ evictList[1].value # evictList[2].value
  /\ ValuesOf = <<evictList[1].value>>

\* the sizes Resize is called with
Sizes == 0..3

\* the current state and the states a Set leaves, of up to three entries
UpToThree == {locked} \cup {[SetNow(in) EXCEPT !.calls = <<>>] : in \in SetInputs}

\* C30: Resize(n) sets MaxKeys to n; for n > 0 and Len() > n it removes
\* the oldest entries until Len() = n, calling the callback for each, and
\* returns their number, oldLen - n; for Len() <= n and for n = 0 it removes
\* nothing and returns 0.
C30_Resize ==
  \A c \in UpToThree, n \in Sizes :
    LET r   == Resize(c, n)
        len == Len(c.evictList)
    IN /\ r.maxKeys = n
       /\ IF n > 0 /\ len > n
          THEN /\ r.cache.evictList = SubSeq(c.evictList, 1, n)
               /\ Len(r.cache.evictList) = n
               /\ r.removed = len - n
               /\ r.cache.stat = [c.stat EXCEPT !.Evicted = @ + (len - n)]
               /\ r.cache.calls =
                    [i \in 1..(len - n) |->
                       <<c.evictList[len + 1 - i].key, c.evictList[len + 1 - i].value>>]
               /\ DOMAIN r.cache.items =
                    {c.evictList[i].key : i \in 1..n}
          ELSE /\ r.cache = c
               /\ r.removed = 0

\* a Set makes an uncapped cache hold three entries; Resize(1) then removes
\* the two oldest and keeps the newest, Resize(0) and Resize(3) remove nothing
C30_Witness ==
  /\ maxKeys = 0
  /\ Len(evictList) = 2
  /\ \E c \in UpToThree :
       /\ Len(c.evictList) = 3
       /\ Resize(c, 1).removed = 2
       /\ Resize(c, 1).cache.evictList = <<c.evictList[1]>>
       /\ Len(Resize(c, 1).cache.calls) = 2
       /\ Resize(c, 0).removed = 0
       /\ Resize(c, 3).removed = 0

\* C31: ContainsOrAdd(K, V) returns (true, false) for a key in the index and
\* changes nothing, in LRU mode too; for another key it leaves the state that
\* Add leaves and returns (false, evicted), evicted being true iff the insert
\* made the size exceed MaxKeys and the back entry was removed for it.
C31_ContainsOrAdd ==
  \A k \in Keys, v \in Values :
    LET r == ContainsOrAdd(locked, k, v, now) IN
      IF k \in DOMAIN items
      THEN /\ r.contains /\ ~r.evicted
           /\ r.cache = locked
      ELSE /\ ~r.contains
           /\ r.cache = SetNow(<<k, v, 0>>)
           /\ r.cache.evictList[1] = cacheItem(k, v, now + ttl)
           /\ r.evicted <=>
                (maxKeys > 0 /\ Len(evictList) = maxKeys
                   /\ ~(ttl # noEvictionTTL /\ After(now, BackItem.expiresAt)))
           /\ r.evicted =>
                /\ r.cache.evictList = <<cacheItem(k, v, now + ttl)>>
                       \o SubSeq(evictList, 1, Len(evictList) - 1)
                /\ r.cache.stat.Evicted = stat.Evicted + 1

\* in LRU mode a full cache of two live entries: ContainsOrAdd of the
\* oldest key leaves it the oldest, ContainsOrAdd of a new key evicts it
C31_Witness ==
  /\ isLRU
  /\ maxKeys = 2
  /\ Len(evictList) = 2
  /\ ~After(now, BackItem.expiresAt)
  /\ ContainsOrAdd(locked, BackItem.key, "v1", now).cache = locked
  /\ \E k \in Keys \ DOMAIN items :
       LET r == ContainsOrAdd(locked, k, "v1", now) IN
         /\ r.evicted
         /\ ~r.contains
         /\ BackItem.key \notin DOMAIN r.cache.items

C33_IndexMatchesList ==
  /\ DOMAIN items = {evictList[i].key : i \in DOMAIN evictList}
  /\ \A i, j \in DOMAIN evictList : evictList[i].key = evictList[j].key => i = j
  /\ \A k \in DOMAIN items :
       /\ \E i \in DOMAIN evictList : evictList[i].key = items[k]
       /\ Item(locked, k).key = k
  /\ Cardinality(DOMAIN items) = Len(evictList)
  /\ LenOf = Cardinality(DOMAIN items)

\* two entries are left after three inserts and one removal
C33_Witness ==
  /\ stat.Added = 3
  /\ stat.Evicted = 1
  /\ Cardinality(DOMAIN items) = 2
  /\ Len(evictList) = 2

\* the list l with the later expiry nearer the front
SortedByExpiry(l) ==
  \A i, j \in DOMAIN l : i < j => l[i].expiresAt >= l[j].expiresAt

\* C34: in LRC mode with one TTL the list is in non-decreasing order of
\* expiresAt from back to front in every state, a Set of a key already in
\* the index keeps it so, and DeleteExpired, which stops at the first live
\* entry from the back, leaves no expired entry.
C34_LRCSortedByExpiry ==
  ~isLRU =>
    /\ SortedByExpiry(evictList)
    /\ \A k \in Keys, v \in Values : SortedByExpiry(SetNow(<<k, v, 0>>).evictList)
    /\ \A i \in DOMAIN DeleteExpired(locked, now).evictList :
         ~After(now, DeleteExpired(locked, now).evictList[i].expiresAt)

\* the back entry has expired and the front one has not: DeleteExpired
\* stops after one removal, and a Set of the expired key puts it in front
\* with the latest expiry
C34_Witness ==
  /\ ~isLRU
  /\ Len(evictList) = 2
  /\ After(now, BackItem.expiresAt)
  /\ ~After(now, evictList[1].expiresAt)
  /\ DeleteExpired(locked, now).evictList = <<evictList[1]>>
  /\ LET c == SetNow(<<BackItem.key, "v1", 0>>) IN
       /\ c.evictList[1].key = BackItem.key
       /\ c.evictList[1].expiresAt > c.evictList[2].expiresAt

\* the entries of the running cache that the cache c no longer holds
RemovedBy(c) ==
  {evictList[i] : i \in {j \in DOMAIN evictList : evictList[j].key \notin DOMAIN c.items}}

\* C40: in LRC mode with one TTL a Set that removes a live entry, be it an
\* older entry or the one it has just written, leaves no expired entry in
\* the cache.
C40_NoLiveEvictionBeforeExpired ==
  ~isLRU =>
    \A k \in Keys, v \in Values :
      LET c == SetNow(<<k, v, 0>>) IN
        (\/ \E e \in RemovedBy(c) : ~After(now, e.expiresAt)
         \/ k \notin DOMAIN c.items)
          => \A i \in DOMAIN c.evictList : ~After(now, c.evictList[i].expiresAt)

\* a full cache with an expired entry behind a live one: the Set of a new
\* key removes the expired entry and keeps the live one; and a full cache
\* of live entries, where the Set of a new key removes the oldest
C40_Witness ==
  /\ ~isLRU
  /\ maxKeys = 2
  /\ Len(evictList) = 2
  /\ ~After(now, evictList[1].expiresAt)
  /\ \E k \in Keys \ DOMAIN items :
       LET c == SetNow(<<k, "v1", 0>>) IN
         /\ RemovedBy(c) = {BackItem}
         /\ After(now, BackItem.expiresAt)
         /\ Len(c.evictList) = 2
         /\ c.evictList[2] = evictList[1]

\* C35: an entry is expired only after its expiresAt.  At the instant
\* expiresAt itself (and before) Get and Peek return its value with true and
\* neither the trim of Set nor DeleteExpired removes it; at a later instant
\* Get and Peek miss, the trim removes it when it is the oldest, and
\* DeleteExpired removes it when it is the oldest or the mode is LRU.
C35_ExpiryIsStrict ==
  \A k \in DOMAIN items :
    LET e == Item(locked, k) IN
      /\ now <= e.expiresAt =>
           /\ Get(locked, k, now).ret = Result(k, e.value, TRUE)
           /\ Peek(locked, k, now).ret.ok
           /\ Peek(locked, k, now).ret.value = e.value
           /\ k \in DOMAIN removeOldestIfExpired(locked, now).items
           /\ k \in DOMAIN DeleteExpired(locked, now).items
      /\ now > e.expiresAt =>
           /\ Get(locked, k, now).ret = Result(k, Nil, FALSE)
           /\ ~Peek(locked, k, now).ret.ok
           /\ e = BackItem => k \notin DOMAIN removeOldestIfExpired(locked, now).items
           /\ (e = BackItem \/ isLRU) => k \notin DOMAIN DeleteExpired(locked, now).items

\* the clock stands at the expiresAt of the front entry and past that of
\* the back entry: only the back entry is removed, only the front one read
C35_Witness ==
  /\ Len(evictList) = 2
  /\ now = evictList[1].expiresAt
  /\ now > BackItem.expiresAt
  /\ Get(locked, evictList[1].key, now).ret.ok
  /\ ~Get(locked, BackItem.key, now).ret.ok
  /\ DeleteExpired(locked, now).evictList = <<evictList[1]>>
  /\ removeOldestIfExpired(locked, now).evictList = <<evictList[1]>>

C39_SetRevivesExpired ==
  \A in \in SetInputs :
    (in[1] \in DOMAIN items /\ After(now, Item(locked, in[1]).expiresAt)) =>
      LET c == SetNow(in) IN
        /\ c.evictList = <<cacheItem(in[1], in[2], now + effectiveTTL(in[3]))>>
                            \o SelectSeq(evictList, LAMBDA e : e.key # in[1])
        /\ c.items = items
        /\ c.calls = <<>>
        /\ c.stat = stat
        /\ Get(c, in[1], now).ret = Result(in[1], in[2], TRUE)

\* the back entry of two has expired and holds another value than the one
\* a Set now writes to its key
C39_Witness ==
  /\ Len(evictList) = 2
  /\ After(now, BackItem.expiresAt)
  /\ BackItem.value = "v1"
  /\ ~Get(locked, BackItem.key, now).ret.ok
  /\ LET c == SetNow(<<BackItem.key, "v2", 0>>) IN
       /\ c.evictList[1].key = BackItem.key
       /\ c.evictList[2] = evictList[1]
       /\ Get(c, BackItem.key, now).ret = Result(BackItem.key, "v2", TRUE)

\* the threads whose String() holds the stats and the size it will render
Rendering == {t \in Threads : pc[t] = "lenUnlock"}

\* C36 as stated: the Size a String() renders is the Added - Evicted of the
\* Stats it renders.
C36_StringAtomic ==
  \A t \in Rendering : cur[t].size = cur[t].stats.Added - cur[t].stats.Evicted

\* C36: String() reads the stats under one hold of the mutex and the size
\* under a later one.  The size is the Added - Evicted of the cache at the
\* second read, the stats are those of the first, which the counters of the
\* cache have not fallen below, and the rendered Size is the rendered
\* Added - Evicted when no operation has changed the counters in between.
C36_StringReadsTwice ==
  \A t \in Rendering :
    /\ mutex = t
    /\ cur[t].size = Len(evictList)
    /\ cur[t].size = stat.Added - stat.Evicted
    /\ cur[t].stats.Added <= stat.Added
    /\ cur[t].stats.Evicted <= stat.Evicted
    /\ (cur[t].stats.Added = stat.Added /\ cur[t].stats.Evicted = stat.Evicted)
         => cur[t].size = cur[t].stats.Added - cur[t].stats.Evicted

\* a String() whose size counts an entry that its stats do not
C36_Witness ==
  \E t \in Rendering :
    /\ cur[t].stats.Added = 0
    /\ cur[t].size = 1
    /\ stat.Added = 1

\* C37: with callbacks that return and do not call the cache, every call a
\* thread has begun returns, and when no thread is in a call the mutex is
\* free.
C37_EveryCallReturns ==
  /\ \A t \in Threads : (pc[t] # "idle") ~> (pc[t] = "idle")
  /\ []((\A t \in Threads : pc[t] = "idle") => mutex = Free)

\* every thread has made its call and has returned, callbacks have run
C37_Witness ==
  /\ \A t \in Threads : left[t] = 0 /\ pc[t] = "idle"
  /\ mutex = Free
  /\ stat.Evicted > 0
  /\ stat.Misses > 0

=============================================================================
